---- MODULE Spec2Model ----
(***************************************************************************)
(* Model of random_cube.py: a grid of axis-aligned prisms (PrismGraph),    *)
(* point deletion (delete_prism) and boundary extraction (to_mesh).        *)
(*                                                                         *)
(* Python values are modelled as follows.  A list is a sequence; Python's  *)
(* 0-based subscript with negative wrap-around and IndexError is PyOk /    *)
(* PyAt.  An Orientation member, a Prism and None are records with         *)
(* different field names, so that a comparison across the three kinds is   *)
(* unequal, as Python's == is.  A reference to a node of the graph is the  *)
(* triple of its (1-based) positions in the nested list.                   *)
(***************************************************************************)
EXTENDS Integers, Sequences, FiniteSets, Bags, TLC

VARIABLES graph, op, ret, current_volume, hist

vars == <<graph, op, ret, current_volume, hist>>

----------------------------------------------------------------------------
(* Bounds *)

\* number of grid lines (breakpoints) along the x axis
NX == 3
\* longest recorded sequence of deletions of distinct cells (SpecOrder)
MaxOrder == 3
\* largest number of raw-index calls (SpecRaw)
MaxCalls == 1
\* corner coordinates of the single prism of SpecPrism lie in -MaxCoord..MaxCoord
MaxCoord == 2
\* grid lines handed to the constructor of SpecConstruct lie in 0..MaxLine
MaxLine == 2

----------------------------------------------------------------------------
(* The driver's inputs: strictly increasing grid lines along each axis,    *)
(* NX of them along x and three along y and z, with cells of different     *)
(* extents                                                                 *)

x_grid == [i \in 1..NX |-> ((i - 1) * i) \div 2]
y_grid == <<0, 3, 8>>
z_grid == <<0, 7, 16>>

----------------------------------------------------------------------------
(* Python values *)

None == [none |-> TRUE]

IndexError == [kind |-> "IndexError"]

PyOk(l, i) == -Len(l) <= i /\ i < Len(l)

PyAt(l, i) == IF i < 0 THEN Len(l) + i + 1 ELSE i + 1

Range(f) == {f[k] : k \in DOMAIN f}

RECURSIVE Flatten(_)
Flatten(ss) == IF ss = <<>> THEN <<>> ELSE Head(ss) \o Flatten(Tail(ss))

----------------------------------------------------------------------------
(* class Orientation *)

DOWN == [name |-> "DOWN", value |-> "down"]
UP == [name |-> "UP", value |-> "up"]
LEFT == [name |-> "LEFT", value |-> "left"]
RIGHT == [name |-> "RIGHT", value |-> "right"]
INTO == [name |-> "INTO", value |-> "into"]
OUT_OF == [name |-> "OUT_OF", value |-> "out-of"]

\* the members in definition order, which is the order of "for o in Orientation"
Orientation == <<DOWN, UP, LEFT, RIGHT, INTO, OUT_OF>>

\* grid[x][y][z]: a reference to the element, or IndexError
Subscript3(grid, x, y, z) ==
    IF ~PyOk(grid, x) THEN IndexError
    ELSE LET gx == grid[PyAt(grid, x)] IN
         IF ~PyOk(gx, y) THEN IndexError
         ELSE LET gy == gx[PyAt(gx, y)] IN
              IF ~PyOk(gy, z) THEN IndexError
              ELSE [kind |-> "ref",
                    at |-> <<PyAt(grid, x), PyAt(gx, y), PyAt(gy, z)>>]

Deref(grid, r) == grid[r.at[1]][r.at[2]][r.at[3]]

\* get_neighbour with DOWN stepping to y + 1 as UP does
get_neighbour_down_slip(self, grid, x, y, z) ==
    IF self = UP THEN
        IF ~PyOk(grid, x) THEN IndexError
        ELSE IF y # Len(grid[PyAt(grid, x)]) - 1
             THEN Subscript3(grid, x, y + 1, z) ELSE [kind |-> "None"]
    ELSE IF self = DOWN THEN
        IF y # 0 THEN Subscript3(grid, x, y + 1, z) ELSE [kind |-> "None"]
    ELSE IF self = LEFT THEN
        IF x # 0 THEN Subscript3(grid, x - 1, y, z) ELSE [kind |-> "None"]
    ELSE IF self = RIGHT THEN
        IF x # Len(grid) - 1
        THEN Subscript3(grid, x + 1, y, z) ELSE [kind |-> "None"]
    ELSE IF self = INTO THEN
        IF ~PyOk(grid, x) THEN IndexError
        ELSE LET gx == grid[PyAt(grid, x)] IN
             IF ~PyOk(gx, y) THEN IndexError
             ELSE IF z # Len(gx[PyAt(gx, y)]) - 1
                  THEN Subscript3(grid, x, y, z + 1) ELSE [kind |-> "None"]
    ELSE IF self = OUT_OF THEN
        IF z # 0 THEN Subscript3(grid, x, y, z - 1) ELSE [kind |-> "None"]
    ELSE [kind |-> "None"]

get_neighbour(self, grid, x, y, z) ==
    IF self = UP THEN
        IF ~PyOk(grid, x) THEN IndexError
        ELSE IF y # Len(grid[PyAt(grid, x)]) - 1
             THEN Subscript3(grid, x, y + 1, z) ELSE [kind |-> "None"]
    ELSE IF self = DOWN THEN
        IF y # 0 THEN Subscript3(grid, x, y - 1, z) ELSE [kind |-> "None"]
    ELSE IF self = LEFT THEN
        IF x # 0 THEN Subscript3(grid, x - 1, y, z) ELSE [kind |-> "None"]
    ELSE IF self = RIGHT THEN
        IF x # Len(grid) - 1
        THEN Subscript3(grid, x + 1, y, z) ELSE [kind |-> "None"]
    ELSE IF self = INTO THEN
        IF ~PyOk(grid, x) THEN IndexError
        ELSE LET gx == grid[PyAt(grid, x)] IN
             IF ~PyOk(gx, y) THEN IndexError
             ELSE IF z # Len(gx[PyAt(gx, y)]) - 1
                  THEN Subscript3(grid, x, y, z + 1) ELSE [kind |-> "None"]
    ELSE IF self = OUT_OF THEN
        IF z # 0 THEN Subscript3(grid, x, y, z - 1) ELSE [kind |-> "None"]
    ELSE [kind |-> "None"]

\* reverse with the vertical pair left as it is
reverse_vertical_slip(self) ==
    IF self = DOWN THEN DOWN
    ELSE IF self = UP THEN UP
    ELSE IF self = LEFT THEN RIGHT
    ELSE IF self = RIGHT THEN LEFT
    ELSE IF self = INTO THEN OUT_OF
    ELSE IF self = OUT_OF THEN INTO
    ELSE None

reverse(self) ==
    IF self = DOWN THEN UP
    ELSE IF self = UP THEN DOWN
    ELSE IF self = LEFT THEN RIGHT
    ELSE IF self = RIGHT THEN LEFT
    ELSE IF self = INTO THEN OUT_OF
    ELSE IF self = OUT_OF THEN INTO
    ELSE None

----------------------------------------------------------------------------
(* class Rectangle *)

Rectangle(ll, tl, lr, tr, orientation) ==
    [ll |-> ll, tl |-> tl, lr |-> lr, tr |-> tr, orientation |-> orientation]

\* faces with INTO, not OUT_OF, among the counterclockwise orientations
faces_into_ccw(self) ==
    IF self.orientation \in {UP, RIGHT, INTO}
    THEN << <<self.ll, self.tr, self.tl>>, <<self.ll, self.lr, self.tr>> >>
    ELSE << <<self.ll, self.tl, self.tr>>, <<self.ll, self.tr, self.lr>> >>

\* the two triangles of a rectangle, each a list of three points
faces(self) ==
    IF self.orientation \in {UP, RIGHT, OUT_OF}
    THEN << <<self.ll, self.tr, self.tl>>, <<self.ll, self.lr, self.tr>> >>
    ELSE << <<self.ll, self.tl, self.tr>>, <<self.ll, self.tr, self.lr>> >>

----------------------------------------------------------------------------
(* class Prism *)

Prism(v000, v001, v010, v011, v100, v101, v110, v111) ==
    [vx_000 |-> v000, vx_001 |-> v001, vx_010 |-> v010, vx_011 |-> v011,
     vx_100 |-> v100, vx_101 |-> v101, vx_110 |-> v110, vx_111 |-> v111]

rectangles(self) ==
    << Rectangle(self.vx_000, self.vx_001, self.vx_010, self.vx_011, LEFT),
       Rectangle(self.vx_100, self.vx_101, self.vx_110, self.vx_111, RIGHT),
       Rectangle(self.vx_001, self.vx_011, self.vx_101, self.vx_111, UP),
       Rectangle(self.vx_000, self.vx_010, self.vx_100, self.vx_110, DOWN),
       Rectangle(self.vx_010, self.vx_011, self.vx_110, self.vx_111, INTO),
       Rectangle(self.vx_000, self.vx_001, self.vx_100, self.vx_101, OUT_OF) >>

\* suppress_orientations is the collection handed in by the caller, as a set
triangle_slice(self, suppress_orientations) ==
    LET rs == rectangles(self) IN
    Flatten([i \in 1..Len(rs) |->
                IF rs[i].orientation \notin suppress_orientations
                THEN faces(rs[i]) ELSE <<>>])

\* volume with the y extent taken for the z extent
volume_yy(self) ==
    (self.vx_100[1] - self.vx_000[1]) *
    (self.vx_010[2] - self.vx_000[2]) *
    (self.vx_010[2] - self.vx_000[2])

volume(self) ==
    (self.vx_100[1] - self.vx_000[1]) *
    (self.vx_010[2] - self.vx_000[2]) *
    (self.vx_001[3] - self.vx_000[3])

----------------------------------------------------------------------------
(* class PrismGraph *)

PrismGraphNode(prism, neighbour_map) ==
    [prism |-> prism, neighbour_map |-> neighbour_map]

\* zip(g, g[1:]) leaves Len(g) - 1 pairs (none for a list shorter than 2)
ZipLen(g) == IF Len(g) = 0 THEN 0 ELSE Len(g) - 1

\* prism_grid with the corners vx_001 and vx_010 exchanged
prism_grid_yz_swapped(xg, yg, zg) ==
    [x \in 1..ZipLen(xg) |->
      [y \in 1..ZipLen(yg) |->
        [z \in 1..ZipLen(zg) |->
          Prism(<<xg[x], yg[y], zg[z]>>,
                <<xg[x], yg[y + 1], zg[z]>>,
                <<xg[x], yg[y], zg[z + 1]>>,
                <<xg[x], yg[y + 1], zg[z + 1]>>,
                <<xg[x + 1], yg[y], zg[z]>>,
                <<xg[x + 1], yg[y], zg[z + 1]>>,
                <<xg[x + 1], yg[y + 1], zg[z]>>,
                <<xg[x + 1], yg[y + 1], zg[z + 1]>>)]]]

prism_grid(xg, yg, zg) ==
    [x \in 1..ZipLen(xg) |->
      [y \in 1..ZipLen(yg) |->
        [z \in 1..ZipLen(zg) |->
          Prism(<<xg[x], yg[y], zg[z]>>,
                <<xg[x], yg[y], zg[z + 1]>>,
                <<xg[x], yg[y + 1], zg[z]>>,
                <<xg[x], yg[y + 1], zg[z + 1]>>,
                <<xg[x + 1], yg[y], zg[z]>>,
                <<xg[x + 1], yg[y], zg[z + 1]>>,
                <<xg[x + 1], yg[y + 1], zg[z]>>,
                <<xg[x + 1], yg[y + 1], zg[z + 1]>>)]]]

\* PrismGraph.__init__: the value of self.graph
PrismGraph(xg, yg, zg) ==
    LET pg == prism_grid(xg, yg, zg) IN
    [x \in 1..Len(pg) |->
      [y \in 1..Len(pg[x]) |->
        [z \in 1..Len(pg[x][y]) |->
          LET linked == {o \in Range(Orientation) :
                           get_neighbour(o, pg, x - 1, y - 1, z - 1).kind = "ref"}
          IN PrismGraphNode(
               pg[x][y][z],
               [o \in linked |->
                  Deref(pg, get_neighbour(o, pg, x - 1, y - 1, z - 1))])]]]

\* neighbour_node.neighbour_map.pop(key, None) on the node at position p
Pop(g, p, key) ==
    LET m == g[p[1]][p[2]][p[3]].neighbour_map IN
    [g EXCEPT ![p[1]][p[2]][p[3]].neighbour_map =
                  [k \in (DOMAIN m) \ {key} |-> m[k]]]

\* the loop popping the key o where the code pops o.reverse()
RECURSIVE Unlink_same_key(_, _, _, _, _)
Unlink_same_key(g, x, y, z, i) ==
    IF i > Len(Orientation) THEN [graph |-> g, raised |-> "no"]
    ELSE LET o == Orientation[i]
             neighbour_node == get_neighbour(o, g, x, y, z)
         IN IF neighbour_node.kind = "IndexError"
            THEN [graph |-> g, raised |-> "IndexError"]
            ELSE IF neighbour_node.kind = "ref"
            THEN Unlink_same_key(Pop(g, neighbour_node.at, o), x, y, z, i + 1)
            ELSE Unlink_same_key(g, x, y, z, i + 1)

\* the loop unlinking only from neighbours whose prism is still present
RECURSIVE Unlink_present_only(_, _, _, _, _)
Unlink_present_only(g, x, y, z, i) ==
    IF i > Len(Orientation) THEN [graph |-> g, raised |-> "no"]
    ELSE LET o == Orientation[i]
             neighbour_node == get_neighbour(o, g, x, y, z)
         IN IF neighbour_node.kind = "IndexError"
            THEN [graph |-> g, raised |-> "IndexError"]
            ELSE IF neighbour_node.kind = "ref"
                    /\ Deref(g, neighbour_node).prism # None
            THEN Unlink_present_only(Pop(g, neighbour_node.at, reverse(o)),
                                     x, y, z, i + 1)
            ELSE Unlink_present_only(g, x, y, z, i + 1)

\* the loop of delete_prism from the i-th member of Orientation on
RECURSIVE Unlink(_, _, _, _, _)
Unlink(g, x, y, z, i) ==
    IF i > Len(Orientation) THEN [graph |-> g, raised |-> "no"]
    ELSE LET o == Orientation[i]
             neighbour_node == get_neighbour(o, g, x, y, z)
         IN IF neighbour_node.kind = "IndexError"
            THEN [graph |-> g, raised |-> "IndexError"]
            ELSE IF neighbour_node.kind = "ref"
            THEN Unlink(Pop(g, neighbour_node.at, reverse(o)), x, y, z, i + 1)
            ELSE Unlink(g, x, y, z, i + 1)

\* delete_prism removing the node from its list (del self.graph[x][y][z])
\* where the code sets its prism to None
delete_prism_del_node(g, x, y, z) ==
    LET node == Subscript3(g, x, y, z) IN
    IF node.kind = "IndexError"
    THEN [graph |-> g, ret |-> None, raised |-> "IndexError"]
    ELSE IF Deref(g, node).prism = None
    THEN [graph |-> g, ret |-> 0, raised |-> "no"]
    ELSE LET vol == volume(Deref(g, node).prism)
             row == g[node.at[1]][node.at[2]]
             g1 == [g EXCEPT ![node.at[1]][node.at[2]] =
                        SubSeq(row, 1, node.at[3] - 1)
                            \o SubSeq(row, node.at[3] + 1, Len(row))]
         IN [graph |-> g1, ret |-> vol, raised |-> "no"]

\* delete_prism without the early return: None.volume() raises
delete_prism_unguarded(g, x, y, z) ==
    LET node == Subscript3(g, x, y, z) IN
    IF node.kind = "IndexError"
    THEN [graph |-> g, ret |-> None, raised |-> "IndexError"]
    ELSE IF Deref(g, node).prism = None
    THEN [graph |-> g, ret |-> None, raised |-> "AttributeError"]
    ELSE LET vol == volume(Deref(g, node).prism)
             g1 == [g EXCEPT ![node.at[1]][node.at[2]][node.at[3]].prism = None]
             u == Unlink(g1, x, y, z, 1)
         IN [graph |-> u.graph,
             ret |-> IF u.raised = "no" THEN vol ELSE None,
             raised |-> u.raised]

\* delete_prism: the graph afterwards, the value returned, the exception raised
delete_prism(g, x, y, z) ==
    LET node == Subscript3(g, x, y, z) IN
    IF node.kind = "IndexError"
    THEN [graph |-> g, ret |-> None, raised |-> "IndexError"]
    ELSE IF Deref(g, node).prism = None
    THEN [graph |-> g, ret |-> 0, raised |-> "no"]
    ELSE LET vol == volume(Deref(g, node).prism)
             g1 == [g EXCEPT ![node.at[1]][node.at[2]][node.at[3]].prism = None]
             u == Unlink(g1, x, y, z, 1)
         IN [graph |-> u.graph,
             ret |-> IF u.raised = "no" THEN vol ELSE None,
             raised |-> u.raised]

\* the nodes with the loops nested the other way round: z outer, x inner
Nodes_z_outer(g) ==
    Flatten([z \in 1..Len(g[1][1]) |->
               Flatten([y \in 1..Len(g[1]) |->
                          [x \in 1..Len(g) |-> g[x][y][z]]])])

\* the nodes in the order of the three nested loops
Nodes(g) == Flatten([x \in 1..Len(g) |-> Flatten(g[x])])

\* to_mesh without the test of node.prism, reading each prism from the grid
\* as constructed
to_mesh_unfiltered(g) ==
    LET ns == Nodes(PrismGraph(x_grid, y_grid, z_grid)) IN
    Flatten([i \in 1..Len(ns) |->
               triangle_slice(ns[i].prism, Range(ns[i].neighbour_map))])

\* to_mesh suppressing a face when the neighbour across it links back, so
\* reading the link maps of the neighbours instead of the node's own
to_mesh_back_links(g) ==
    Flatten([x \in 1..Len(g) |->
      Flatten([y \in 1..Len(g[x]) |->
        Flatten([z \in 1..Len(g[x][y]) |->
          IF g[x][y][z].prism # None
          THEN triangle_slice(
                 g[x][y][z].prism,
                 {o \in Range(Orientation) :
                    LET n == get_neighbour(o, g, x - 1, y - 1, z - 1) IN
                    /\ n.kind = "ref"
                    /\ reverse(o) \in DOMAIN Deref(g, n).neighbour_map})
          ELSE <<>>])])])

to_mesh(g) ==
    LET ns == Nodes(g) IN
    Flatten([i \in 1..Len(ns) |->
               IF ns[i].prism # None
               THEN triangle_slice(ns[i].prism, Range(ns[i].neighbour_map))
               ELSE <<>>])

----------------------------------------------------------------------------
(* The driver *)

RECURSIVE SumVolumes(_)
SumVolumes(ns) ==
    IF ns = <<>> THEN 0
    ELSE (IF Head(ns).prism # None THEN volume(Head(ns).prism) ELSE 0)
         + SumVolumes(Tail(ns))

\* range(len(...)) along each axis of the graph
XS == 0..(Len(graph) - 1)
YS == 0..(Len(graph[1]) - 1)
ZS == 0..(Len(graph[1][1]) - 1)

\* indices a caller may hand in, in range or not
RawRange(S) == (-(Cardinality(S) + 1))..Cardinality(S)

Start(g) ==
    /\ graph = g
    /\ op = [name |-> "init", args |-> <<>>, raised |-> "no"]
    /\ ret = None
    /\ current_volume = SumVolumes(Nodes(g))
    /\ hist = <<>>

Init == Start(PrismGraph(x_grid, y_grid, z_grid))

\* a call g.delete_prism(x, y, z) and the driver's current_volume -= ...
Call_delete_prism(x, y, z) ==
    LET r == delete_prism(graph, x, y, z) IN
    /\ graph' = r.graph
    /\ op' = [name |-> "delete_prism", args |-> <<x, y, z>>, raised |-> r.raised]
    /\ ret' = r.ret
    /\ current_volume' = IF r.raised = "no" THEN current_volume - r.ret
                         ELSE current_volume

DeletePrism ==
    \E x \in XS, y \in YS, z \in ZS :
        Call_delete_prism(x, y, z) /\ UNCHANGED hist

ToMesh ==
    /\ op' = [name |-> "to_mesh", args |-> <<>>, raised |-> "no"]
    /\ ret' = to_mesh(graph)
    /\ UNCHANGED <<graph, current_volume, hist>>

Next == DeletePrism \/ ToMesh

Spec == Init /\ [][Next]_vars

\* deletions of pairwise distinct cells, recorded in the order of the calls
DeleteDistinct ==
    /\ Len(hist) < MaxOrder
    /\ \E x \in XS, y \in YS, z \in ZS :
        /\ \A i \in 1..Len(hist) : hist[i].args # <<x, y, z>>
        /\ Call_delete_prism(x, y, z)
        /\ hist' = Append(hist, [args |-> <<x, y, z>>, ret |-> ret'])

NextOrder == DeleteDistinct

SpecOrder == Init /\ [][NextOrder]_vars

\* calls with arbitrary integer indices, recorded in the order of the calls
DeleteRaw ==
    /\ Len(hist) < MaxCalls
    /\ \E x \in RawRange(XS), y \in RawRange(YS), z \in RawRange(ZS) :
        /\ Call_delete_prism(x, y, z)
        /\ hist' = Append(hist, [args |-> <<x, y, z>>, ret |-> ret'])

NextRaw == DeleteRaw

SpecRaw == Init /\ [][NextRaw]_vars

\* a graph of one prism with corners drawn from Coords
Coords == (-MaxCoord)..MaxCoord

InitPrism ==
    \E xl, xh, yl, yh, zl, zh \in Coords :
        /\ xl < xh /\ yl < yh /\ zl < zh
        /\ Start(PrismGraph(<<xl, xh>>, <<yl, yh>>, <<zl, zh>>))

SpecPrism == InitPrism /\ [][Next]_vars

\* the strictly increasing sequence of the numbers in S
RECURSIVE Ascending(_)
Ascending(S) ==
    IF S = {} THEN <<>>
    ELSE LET m == CHOOSE a \in S : \A b \in S : a <= b
         IN <<m>> \o Ascending(S \ {m})

\* sequences a caller may hand to the constructor: every sequence of at most
\* two grid lines, increasing or not, and every strictly increasing sequence
AxisInputs ==
    UNION {[1..n -> 0..MaxLine] : n \in 0..2}
        \cup {Ascending(S) : S \in SUBSET (0..MaxLine)}

\* g = PrismGraph(xg, yg, zg) for any sequences: nothing in __init__ raises
InitConstruct ==
    \E xg, yg, zg \in AxisInputs :
        /\ graph = PrismGraph(xg, yg, zg)
        /\ op = [name |-> "__init__", args |-> <<xg, yg, zg>>, raised |-> "no"]
        /\ ret = None
        /\ current_volume = SumVolumes(Nodes(PrismGraph(xg, yg, zg)))
        /\ hist = <<>>

NextConstruct == ToMesh

SpecConstruct == InitConstruct /\ [][NextConstruct]_vars

\* a call prism.triangle_slice(suppress_orientations) on a prism of the graph
\* with any set of Orientation members
TriangleSlice ==
    \E x \in XS, y \in YS, z \in ZS :
        \E S \in SUBSET Range(Orientation) :
            /\ Deref(graph, Subscript3(graph, x, y, z)).prism # None
            /\ op' = [name |-> "triangle_slice", args |-> <<<<x, y, z>>, S>>,
                      raised |-> "no"]
            /\ ret' = triangle_slice(Deref(graph, Subscript3(graph, x, y, z)).prism, S)
            /\ UNCHANGED <<graph, current_volume, hist>>

NextSlice == TriangleSlice

SpecSlice == Init /\ [][NextSlice]_vars

----------------------------------------------------------------------------
(* Geometry of the grid, stated from indices and coordinates alone *)

\* positions of the nodes, and the same in the order x outer, y, z inner
Pos(g) ==
    {<<x, y, z>> : x \in 1..Len(g), y \in 1..Len(g[1]), z \in 1..Len(g[1][1])}

At(g, p) == g[p[1]][p[2]][p[3]]

Present(g, p) == At(g, p).prism # None

\* the index step of a direction: up/down along y, left/right along x,
\* into/out-of along z
Step(o) ==
    IF o = UP THEN <<0, 1, 0>>
    ELSE IF o = DOWN THEN <<0, -1, 0>>
    ELSE IF o = LEFT THEN <<-1, 0, 0>>
    ELSE IF o = RIGHT THEN <<1, 0, 0>>
    ELSE IF o = INTO THEN <<0, 0, 1>>
    ELSE <<0, 0, -1>>

Toward(p, o) == <<p[1] + Step(o)[1], p[2] + Step(o)[2], p[3] + Step(o)[3]>>

\* the neighbour of p in direction o is outside the grid or deleted
Open(g, p, o) == Toward(p, o) \notin Pos(g) \/ ~Present(g, Toward(p, o))

\* the axis on which the four corners of a rectangle agree
PlaneAxis(r) ==
    CHOOSE a \in 1..3 : r.ll[a] = r.tl[a] /\ r.ll[a] = r.lr[a] /\ r.ll[a] = r.tr[a]

\* the position of the cell on the other side of rectangle r of the prism at p
Across(g, p, r) ==
    LET a == PlaneAxis(r)
        d == IF r.ll[a] = At(g, p).prism.vx_111[a] THEN 1 ELSE -1
    IN [k \in 1..3 |-> IF k = a THEN p[k] + d ELSE p[k]]

Exposed(g, p, r) == Across(g, p, r) \notin Pos(g) \/ ~Present(g, Across(g, p, r))

FaceEmitted(m, r) == \A t \in Range(faces(r)) : t \in Range(m)

FaceOmitted(m, r) == \A t \in Range(faces(r)) : t \notin Range(m)

\* volume of the cell at p of the driver's grid, from the breakpoints
CellVolume(p) ==
    (x_grid[p[1] + 1] - x_grid[p[1]]) *
    (y_grid[p[2] + 1] - y_grid[p[2]]) *
    (z_grid[p[3] + 1] - z_grid[p[3]])

RECURSIVE SumOver(_, _)
SumOver(S, n) ==
    IF S = {} THEN n
    ELSE LET p == CHOOSE q \in S : TRUE IN SumOver(S \ {p}, n + CellVolume(p))

\* 1-based position of the cell a call with in-range arguments names
ArgPos(a) == <<a[1] + 1, a[2] + 1, a[3] + 1>>

----------------------------------------------------------------------------
(* Claims *)

\* C1: after construction and any deletions of in-range cells, to_mesh emits
\* the two triangles of a face of a present prism if and only if the cell on
\* the other side of that face is outside the grid or deleted, and omits them
\* if and only if that cell's prism is still present.
C1_FaceRenderedIffExposed ==
    op.name = "to_mesh" =>
        \A p \in Pos(graph) :
            Present(graph, p) =>
                \A r \in Range(rectangles(At(graph, p).prism)) :
                    /\ FaceEmitted(ret, r) <=> Exposed(graph, p, r)
                    /\ FaceOmitted(ret, r) <=> ~Exposed(graph, p, r)

\* C2: the number of triangles returned by to_mesh is twice the number of
\* pairs (present prism, direction) whose neighbour in that direction is
\* outside the grid or deleted.
C2_TriangleCount ==
    op.name = "to_mesh" =>
        Len(ret) = 2 * Cardinality({pd \in Pos(graph) \X Range(Orientation) :
                                      /\ Present(graph, pd[1])
                                      /\ Open(graph, pd[1], pd[2])})

\* C3: the volume at construction minus the volumes returned by the
\* delete_prism calls equals the volume of the prisms still present, and a
\* delete of a present cell returns the product of that cell's three extents.
C3_Conserved ==
    current_volume = SumOver({p \in Pos(graph) : Present(graph, p)}, 0)

C3_ReturnsVolume ==
    \A p \in Pos(graph) :
        (op'.name = "delete_prism" /\ ArgPos(op'.args) = p /\ Present(graph, p))
            => ret' = CellVolume(p)

C3_VolumeConservation == []C3_Conserved /\ [][C3_ReturnsVolume]_vars

C3_Witness ==
    /\ op.name = "delete_prism"
    /\ ret > 0
    /\ Cardinality({p \in Pos(graph) : ~Present(graph, p)}) >= 2
    /\ \E p \in Pos(graph) : Present(graph, p)

\* C4: a node's link map has an entry for direction D if and only if the
\* index one step in direction D is inside the grid and the prism of the node
\* there is still present.
C4_LinkCacheConsistent ==
    \A p \in Pos(graph) :
        \A o \in Range(Orientation) :
            (o \in DOMAIN At(graph, p).neighbour_map) <=> ~Open(graph, p, o)

\* a deleted node next to a deleted node, and a present node next to both kinds
C4_Witness ==
    \E p \in Pos(graph), o1, o2, o3 \in Range(Orientation) :
        /\ ~Present(graph, p)
        /\ Toward(p, o1) \in Pos(graph) /\ ~Present(graph, Toward(p, o1))
        /\ Toward(p, o2) \in Pos(graph) /\ Present(graph, Toward(p, o2))
        /\ Toward(Toward(p, o2), o3) \in Pos(graph)
        /\ Present(graph, Toward(Toward(p, o2), o3))

\* C5: delete_prism on a cell whose prism is already absent returns 0 and
\* leaves every node's prism and link map unchanged, each time it is called.
C5_Step ==
    \A p \in Pos(graph) :
        (op'.name = "delete_prism" /\ ArgPos(op'.args) = p /\ ~Present(graph, p))
            => (op'.raised = "no" /\ ret' = 0 /\ graph' = graph)

C5_IdempotentDeletion == [][C5_Step]_vars

\* the last call was a delete of an absent cell while other prisms remain
C5_Witness ==
    /\ op.name = "delete_prism"
    /\ op.raised = "no"
    /\ ret = 0
    /\ ~Present(graph, ArgPos(op.args))
    /\ \E p \in Pos(graph) : Present(graph, p)

Links(g, p, o) == o \in DOMAIN At(g, p).neighbour_map

\* the direction of the opposite index step
Opposite(o) ==
    CHOOSE r \in Range(Orientation) :
        \A k \in 1..3 : Step(r)[k] = -Step(o)[k]

\* C6 as stated: where A links to its neighbour B in direction D, B does not
\* link back to A via reverse(D) once B is deleted, and B does link back via
\* reverse(D) whenever both A and B are present.
C6_Original_Step ==
    \A p \in Pos(graph) :
        \A o \in Range(Orientation) :
            (Toward(p, o) \in Pos(graph) /\ Links(graph, p, o)) =>
                LET q == Toward(p, o) IN
                /\ ~Present(graph', q) => ~Links(graph', q, Opposite(o))
                /\ (Present(graph', p) /\ Present(graph', q))
                       => Links(graph', q, Opposite(o))

C6_Original == [][C6_Original_Step]_vars

\* C6 as amended: for every node A with a node B one step in direction D, A
\* does not link to B via D once B is deleted, while B keeps its own entry
\* reverse(D) as long as A is present; and A and B link to each other via D
\* and reverse(D) whenever both are present.
C6_DirectionalConsistency ==
    \A p \in Pos(graph) :
        \A o \in Range(Orientation) :
            Toward(p, o) \in Pos(graph) =>
                LET q == Toward(p, o) IN
                /\ ~Present(graph, q) => ~Links(graph, p, o)
                /\ (~Present(graph, q) /\ Present(graph, p))
                       => Links(graph, q, Opposite(o))
                /\ (Present(graph, p) /\ Present(graph, q))
                       => (Links(graph, p, o) /\ Links(graph, q, Opposite(o)))

\* a present node with one neighbour deleted and another neighbour present
C6_Witness ==
    \E p \in Pos(graph), o1, o2 \in Range(Orientation) :
        /\ Present(graph, p)
        /\ Toward(p, o1) \in Pos(graph) /\ ~Present(graph, Toward(p, o1))
        /\ Links(graph, Toward(p, o1), Opposite(o1))
        /\ Toward(p, o2) \in Pos(graph) /\ Present(graph, Toward(p, o2))
        /\ op.name = "delete_prism"

\* the permutations of 1..n
Perms(n) == {f \in [1..n -> 1..n] : \A i, j \in 1..n : f[i] = f[j] => i = j}

\* the calls delete_prism(*cs[i]) in order from graph g: the final graph and
\* the bag of returned values
RECURSIVE Replay(_, _, _)
Replay(g, cs, rets) ==
    IF cs = <<>> THEN [graph |-> g, rets |-> rets]
    ELSE LET r == delete_prism(g, Head(cs)[1], Head(cs)[2], Head(cs)[3])
         IN Replay(r.graph, Tail(cs), rets (+) SetToBag({r.ret}))

RECURSIVE RetBag(_)
RetBag(h) ==
    IF h = <<>> THEN EmptyBag ELSE SetToBag({Head(h).ret}) (+) RetBag(Tail(h))

\* C7: deleting a set of distinct cells in any order yields the same final
\* graph (prisms and link maps of every node) and the same multiset of
\* returned volumes: every reordering of the recorded calls, replayed from
\* the constructed graph, ends where the recorded order ended.
C7_OrderIndependent ==
    LET g0 == PrismGraph(x_grid, y_grid, z_grid)
        rets == RetBag(hist)
    IN \A f \in Perms(Len(hist)) :
        LET r == Replay(g0, [i \in 1..Len(hist) |-> hist[f[i]].args], EmptyBag)
        IN r.graph = graph /\ r.rets = rets

\* three distinct cells were deleted, two of them adjacent to the third
C7_Witness ==
    /\ Len(hist) = MaxOrder
    /\ \E i, j, k \in 1..Len(hist) :
        /\ i < j /\ j < k
        /\ \E o1, o2 \in Range(Orientation) :
            /\ ArgPos(hist[i].args) = Toward(ArgPos(hist[k].args), o1)
            /\ ArgPos(hist[j].args) = Toward(ArgPos(hist[k].args), o2)

\* C8: once every cell of the grid has been deleted, to_mesh returns a mesh
\* of zero triangles.
C8_EmptyAfterAllDeleted ==
    (op.name = "to_mesh" /\ \A p \in Pos(graph) : ~Present(graph, p))
        => Len(ret) = 0

C8_Witness ==
    /\ op.name = "to_mesh"
    /\ \A p \in Pos(graph) : ~Present(graph, p)
    /\ current_volume = 0

Sub(a, b) == <<a[1] - b[1], a[2] - b[2], a[3] - b[3]>>

Cross(a, b) ==
    <<a[2] * b[3] - a[3] * b[2], a[3] * b[1] - a[1] * b[3],
      a[1] * b[2] - a[2] * b[1]>>

Dot(a, b) == a[1] * b[1] + a[2] * b[2] + a[3] * b[3]

\* the normal of triangle t points away from the centroid of prism P (the
\* centroid is half the sum of two opposite corners)
Outward(t, P) ==
    LET n == Cross(Sub(t[2], t[1]), Sub(t[3], t[1]))
        twice == [k \in 1..3 |-> 2 * t[1][k] - (P.vx_000[k] + P.vx_111[k])]
    IN Dot(n, twice) > 0

\* C9: for a prism with high > low on each axis, triangle_slice with nothing
\* suppressed yields 12 triangles, each with its normal (cross product of its
\* edges in vertex order) pointing away from the centroid of the prism.
C9_Winding ==
    (op.name = "to_mesh" /\ Present(graph, <<1, 1, 1>>)) =>
        /\ ret = triangle_slice(At(graph, <<1, 1, 1>>).prism, {})
        /\ Len(ret) = 12
        /\ \A i \in 1..Len(ret) : Outward(ret[i], At(graph, <<1, 1, 1>>).prism)

\* a prism that is no cube, with corners on both sides of the origin
C9_Witness ==
    /\ op.name = "to_mesh"
    /\ Present(graph, <<1, 1, 1>>)
    /\ LET P == At(graph, <<1, 1, 1>>).prism IN
        /\ P.vx_000[1] < 0 /\ P.vx_111[2] > 0 /\ P.vx_000[3] > 0
        /\ P.vx_111[1] - P.vx_000[1] # P.vx_111[2] - P.vx_000[2]
    /\ Len(ret) = 12

OutOfRange(a) == a[1] \notin XS \/ a[2] \notin YS \/ a[3] \notin ZS

\* C10: a delete_prism call with an index below 0 or at or above the axis
\* dimension fails with a bounds error and leaves the graph unchanged.
C10_Step ==
    (op'.name = "delete_prism" /\ OutOfRange(op'.args))
        => (op'.raised = "IndexError" /\ graph' = graph)

C10_OutOfRangeRaises == [][C10_Step]_vars

StrictlyIncreasing(q) == \A i \in 1..(Len(q) - 1) : q[i] < q[i + 1]

Degenerate(q) == Len(q) < 2 \/ ~StrictlyIncreasing(q)

\* C11: construction raises a degenerate-geometry error, and builds no graph,
\* if one of the three axis sequences is not strictly increasing or has fewer
\* than 2 points.
C11_DegenerateRaises ==
    (op.name = "__init__" /\ \E k \in 1..3 : Degenerate(op.args[k]))
        => (op.raised # "no" /\ graph = <<>>)

Without(m, k) == [j \in (DOMAIN m) \ {k} |-> m[j]]

\* the step is a delete_prism call on the cell at p, whose prism was present
DeletesPresent(p) ==
    /\ op'.name = "delete_prism"
    /\ ArgPos(op'.args) = p
    /\ Present(graph, p)

\* all that a deletion at p changes, when the nodes in Unlinked lose their
\* entry towards p
FrameOfDelete(p, Unlinked) ==
    /\ At(graph', p).prism = None
    /\ At(graph', p).neighbour_map = At(graph, p).neighbour_map
    /\ \A q \in Pos(graph) \ {p} :
        /\ At(graph', q).prism = At(graph, q).prism
        /\ At(graph', q).neighbour_map =
             IF q \in Unlinked
             THEN Without(At(graph, q).neighbour_map,
                          CHOOSE o \in Range(Orientation) : Toward(q, o) = p)
             ELSE At(graph, q).neighbour_map

\* C12 as stated: delete_prism on a present cell changes only that node's
\* prism and, for every direction D in which the deleted node has a linked
\* neighbour, that neighbour's entry reverse(D); the link maps of nodes not
\* linked from it, already-deleted neighbours included, are unchanged.
C12_Original_Step ==
    \A p \in Pos(graph) :
        DeletesPresent(p) =>
            FrameOfDelete(p, {Toward(p, o) : o \in DOMAIN At(graph, p).neighbour_map})

C12_Original == [][C12_Original_Step]_vars

\* C12 as amended: delete_prism on a present cell changes only that node's
\* prism and, for every direction D in which a node exists inside the grid,
\* present or already deleted, that node's entry reverse(D); the deleted
\* node's own link map, all other entries and all other prisms are unchanged.
C12_Step ==
    \A p \in Pos(graph) :
        DeletesPresent(p) =>
            FrameOfDelete(p, {Toward(p, o) : o \in Range(Orientation)} \cap Pos(graph))

C12_FrameOfDelete == [][C12_Step]_vars

\* the cell deleted last has a neighbour deleted before it, which has lost its
\* entry towards the cell, and a neighbour that is still present
C12_Witness ==
    /\ op.name = "delete_prism"
    /\ op.raised = "no"
    /\ ret # 0
    /\ \E o1, o2 \in Range(Orientation) :
        LET p == ArgPos(op.args) IN
        /\ Toward(p, o1) \in Pos(graph) /\ ~Present(graph, Toward(p, o1))
        /\ ~Links(graph, Toward(p, o1), Opposite(o1))
        /\ Toward(p, o2) \in Pos(graph) /\ Present(graph, Toward(p, o2))

\* the positions of all nodes of a graph, whatever the lengths of its lists
AllPos(g) ==
    UNION {UNION {{<<x, y, z>> : z \in 1..Len(g[x][y])} : y \in 1..Len(g[x])}
             : x \in 1..Len(g)}

\* the prism between the grid lines p and p + 1 of each axis
CellPrism(xg, yg, zg, p) ==
    [vx_000 |-> <<xg[p[1]], yg[p[2]], zg[p[3]]>>,
     vx_001 |-> <<xg[p[1]], yg[p[2]], zg[p[3] + 1]>>,
     vx_010 |-> <<xg[p[1]], yg[p[2] + 1], zg[p[3]]>>,
     vx_011 |-> <<xg[p[1]], yg[p[2] + 1], zg[p[3] + 1]>>,
     vx_100 |-> <<xg[p[1] + 1], yg[p[2]], zg[p[3]]>>,
     vx_101 |-> <<xg[p[1] + 1], yg[p[2]], zg[p[3] + 1]>>,
     vx_110 |-> <<xg[p[1] + 1], yg[p[2] + 1], zg[p[3]]>>,
     vx_111 |-> <<xg[p[1] + 1], yg[p[2] + 1], zg[p[3] + 1]>>]

\* C13: construction from axis sequences of lengths Nx, Ny, Nz (each at
\* least 1) builds exactly (Nx-1) x (Ny-1) x (Nz-1) nodes, each with a present
\* prism whose corners are the adjacent grid lines, and a node's link map
\* contains direction D if and only if get_neighbour finds a neighbour in
\* direction D, which is the case exactly when the index one step in
\* direction D is inside the grid.
C13_Construction ==
    (op.name = "__init__" /\ \A k \in 1..3 : Len(op.args[k]) >= 1) =>
        LET xg == op.args[1]
            yg == op.args[2]
            zg == op.args[3]
            P == AllPos(graph)
        IN /\ P = (1..(Len(xg) - 1)) \X (1..(Len(yg) - 1)) \X (1..(Len(zg) - 1))
           /\ Len(Nodes(graph)) = (Len(xg) - 1) * (Len(yg) - 1) * (Len(zg) - 1)
           /\ \A p \in P :
               /\ At(graph, p).prism = CellPrism(xg, yg, zg, p)
               /\ \A o \in Range(Orientation) :
                   /\ Links(graph, p, o)
                        <=> get_neighbour(o, graph, p[1] - 1, p[2] - 1, p[3] - 1).kind
                              = "ref"
                   /\ Links(graph, p, o) <=> Toward(p, o) \in P
                   /\ Links(graph, p, o)
                        => At(graph, p).neighbour_map[o] = At(graph, Toward(p, o)).prism

\* a grid of 2 x 1 x 2 cells was constructed from strictly increasing lines
C13_Witness ==
    /\ op.name = "__init__"
    /\ Len(op.args[1]) = 3 /\ Len(op.args[2]) = 2 /\ Len(op.args[3]) = 3
    /\ \A k \in 1..3 : StrictlyIncreasing(op.args[k])
    /\ Cardinality(AllPos(graph)) = 4

\* the reference to the node at position p
Ref(p) == [kind |-> "ref", at |-> p]

\* C14: for an in-range (x, y, z), get_neighbour returns the node one index
\* step away on the axis of the direction (a direction and its reverse being
\* the + and - steps of one axis), or none exactly when that index is outside
\* [0, dimension-1]; the result after any deletions is the one found on the
\* grid of prisms at construction (it names the same position),
\* and get_neighbour from the node found, in the reverse direction, is the
\* node started from.
C14_NeighbourByIndex ==
    LET g0 == prism_grid(x_grid, y_grid, z_grid)
        P == Pos(graph)
    IN /\ \A o \in Range(Orientation) : reverse(o) = Opposite(o)
       /\ \A p \in P :
           \A o \in Range(Orientation) :
               LET r == get_neighbour(o, graph, p[1] - 1, p[2] - 1, p[3] - 1)
                   t == Toward(p, o)
               IN /\ r.kind \in {"ref", "None"}
                  /\ r.kind = "None" <=> t \notin P
                  /\ r.kind = "ref" => r = Ref(t)
                  /\ r = get_neighbour(o, g0, p[1] - 1, p[2] - 1, p[3] - 1)
                  /\ r.kind = "ref" =>
                       get_neighbour(reverse(o), graph,
                                     t[1] - 1, t[2] - 1, t[3] - 1) = Ref(p)

\* a deletion has run get_neighbour from a node next to a deleted node and
\* next to a present node
C14_Witness ==
    /\ op.name = "delete_prism"
    /\ op.raised = "no"
    /\ ret # 0
    /\ \E o1, o2 \in Range(Orientation) :
        LET p == ArgPos(op.args)
            r1 == get_neighbour(o1, graph, op.args[1], op.args[2], op.args[3])
            r2 == get_neighbour(o2, graph, op.args[1], op.args[2], op.args[3])
        IN /\ r1.kind = "ref" /\ ~Present(graph, r1.at)
           /\ r2.kind = "ref" /\ Present(graph, r2.at)
           /\ \E o3 \in Range(Orientation) :
                get_neighbour(o3, graph, op.args[1], op.args[2], op.args[3]).kind
                    = "None"

\* the order in which triangle_slice lists the faces
FaceOrder == <<LEFT, RIGHT, UP, DOWN, INTO, OUT_OF>>

\* the rectangle of prism P that carries orientation o
RectOf(P, o) == CHOOSE r \in Range(rectangles(P)) : r.orientation = o

\* the two triangles of rectangle r in counterclockwise and in clockwise order
Counterclockwise(r) == << <<r.ll, r.tr, r.tl>>, <<r.ll, r.lr, r.tr>> >>

Clockwise(r) == << <<r.ll, r.tl, r.tr>>, <<r.ll, r.tr, r.lr>> >>

\* the triangles of prism P with the directions in S left out and those in
\* CCW counterclockwise
SliceWith(P, S, CCW) ==
    Flatten([i \in 1..Len(FaceOrder) |->
               IF FaceOrder[i] \in S THEN <<>>
               ELSE IF FaceOrder[i] \in CCW
               THEN Counterclockwise(RectOf(P, FaceOrder[i]))
               ELSE Clockwise(RectOf(P, FaceOrder[i]))])

\* C15 as stated: triangle_slice emits exactly 2 triangles for each direction
\* not suppressed and none for a suppressed one, in one fixed direction order,
\* counterclockwise for {up, right, into} and clockwise for {down, left,
\* out-of}.
C15_Original ==
    op.name = "triangle_slice" =>
        /\ Len(ret) = 2 * (6 - Cardinality(op.args[2]))
        /\ ret = SliceWith(At(graph, ArgPos(op.args[1])).prism, op.args[2],
                           {UP, RIGHT, INTO})

\* C15 as amended: the same, with counterclockwise order for {up, right,
\* out-of} and the mirrored clockwise order for {down, left, into}.
C15_TriangleSlice ==
    op.name = "triangle_slice" =>
        /\ Len(ret) = 2 * (6 - Cardinality(op.args[2]))
        /\ ret = SliceWith(At(graph, ArgPos(op.args[1])).prism, op.args[2],
                           {UP, RIGHT, OUT_OF})

\* two directions were suppressed and both INTO and OUT_OF were emitted
C15_Witness ==
    /\ op.name = "triangle_slice"
    /\ op.args[2] = {UP, LEFT}
    /\ Len(ret) = 8

\* the place of position p, and the position at place i, when the positions
\* are listed in ascending order with x outermost and z innermost
Rank(g, p) ==
    ((p[1] - 1) * Len(g[1]) + (p[2] - 1)) * Len(g[1][1]) + p[3]

PosAtRank(g, i) == CHOOSE p \in Pos(g) : Rank(g, p) = i

\* the elements of sequence q that are in set S, in the order of q
RECURSIVE Keep(_, _)
Keep(q, S) ==
    IF q = <<>> THEN <<>>
    ELSE (IF Head(q) \in S THEN <<Head(q)>> ELSE <<>>) \o Keep(Tail(q), S)

\* C16: to_mesh visits the nodes in ascending index order with x outermost,
\* y in the middle and z innermost, and appends each present prism's emitted
\* triangles contiguously in the prism's face order; a node whose prism is
\* absent contributes nothing.
C16_TraversalOrder ==
    op.name = "to_mesh" =>
        ret = Flatten([i \in 1..Cardinality(Pos(graph)) |->
                         LET p == PosAtRank(graph, i) IN
                         IF Present(graph, p)
                         THEN Keep(triangle_slice(At(graph, p).prism, {}), Range(ret))
                         ELSE <<>>])

\* a mesh of a graph with absent nodes between present ones
C16_Witness ==
    /\ op.name = "to_mesh"
    /\ \E i, j, k \in 1..Cardinality(Pos(graph)) :
        /\ i < j /\ j < k
        /\ Present(graph, PosAtRank(graph, i))
        /\ ~Present(graph, PosAtRank(graph, j))
        /\ Present(graph, PosAtRank(graph, k))
    /\ Len(ret) >= 24

\* graph g with the link map of every node whose prism is absent replaced by
\* the map the node at that position has in graph h
WithAbsentMapsOf(g, h) ==
    [x \in 1..Len(g) |->
      [y \in 1..Len(g[x]) |->
        [z \in 1..Len(g[x][y]) |->
          IF g[x][y][z].prism = None
          THEN [g[x][y][z] EXCEPT !.neighbour_map = h[x][y][z].neighbour_map]
          ELSE g[x][y][z]]]]

\* graph g with every link map empty
NoLinks(g) ==
    [x \in 1..Len(g) |->
      [y \in 1..Len(g[x]) |->
        [z \in 1..Len(g[x][y]) |->
          [g[x][y][z] EXCEPT !.neighbour_map = <<>>]]]]

\* C17: the output of to_mesh does not depend on the link maps of nodes whose
\* prism is absent: the graph with those maps emptied, and the graph with
\* those maps as they were at construction, agree with the graph on prism
\* presence and on the link maps of present nodes, and yield the same mesh.
C17_StaleLinksHarmless ==
    op.name = "to_mesh" =>
        LET g0 == PrismGraph(x_grid, y_grid, z_grid) IN
        /\ ret = to_mesh(WithAbsentMapsOf(graph, NoLinks(graph)))
        /\ ret = to_mesh(WithAbsentMapsOf(graph, g0))

\* a mesh of a graph where an absent node keeps a stale link to a present
\* node and has lost a link it had at construction
C17_Witness ==
    /\ op.name = "to_mesh"
    /\ Len(ret) > 0
    /\ \E p \in Pos(graph), o1, o2 \in Range(Orientation) :
        /\ ~Present(graph, p)
        /\ Links(graph, p, o1) /\ Present(graph, Toward(p, o1))
        /\ Toward(p, o2) \in Pos(graph) /\ ~Links(graph, p, o2)

\* the lengths of the nested lists of a graph
Shape(g) == [x \in 1..Len(g) |-> [y \in 1..Len(g[x]) |-> Len(g[x][y])]]

\* C18: in every step the grid dimensions stay the same, a prism that is
\* absent stays absent, and no node's link map gains an entry or changes one
\* it keeps.
C18_Step ==
    /\ Shape(graph') = Shape(graph)
    /\ \A p \in Pos(graph) :
        /\ ~Present(graph, p) => ~Present(graph', p)
        /\ Present(graph', p) => At(graph', p).prism = At(graph, p).prism
        /\ DOMAIN At(graph', p).neighbour_map \subseteq DOMAIN At(graph, p).neighbour_map
        /\ \A o \in DOMAIN At(graph', p).neighbour_map :
             At(graph', p).neighbour_map[o] = At(graph, p).neighbour_map[o]

C18_Monotonic == [][C18_Step]_vars

\* a prism is absent and a present neighbour has lost its link to it, and the
\* last call was a delete_prism on an absent cell
C18_Witness ==
    /\ op.name = "delete_prism"
    /\ \E p, q \in Pos(graph) :
        /\ ~Present(graph, p)
        /\ Present(graph, q)
        /\ \E o \in Range(Orientation) : Toward(q, o) = p /\ ~Links(graph, q, o)
    /\ ret = 0

====
